---- MODULE Spec2Model ----
(***************************************************************************)
(* A model of apprise's configuration aggregator (AppriseConfig) and of    *)
(* the URL handling of the Mattermost and Pushjet notification plugins.    *)
(*                                                                         *)
(* Python values are encoded as follows:                                   *)
(*   - None, where a string is expected, is the string "None";             *)
(*   - an optional integer or boolean is a sequence: <<>> is None and      *)
(*     <<v>> is the value v;                                               *)
(*   - a cache policy is one of the strings "None", "True", "False";       *)
(*   - a list is a sequence, a set a set.                                  *)
(* Config sources are objects: the aggregator's list holds references      *)
(* (object ids) into the heap objs, so that one source can be listed twice.*)
(***************************************************************************)
EXTENDS Integers, Sequences, FiniteSets, TLC

VARIABLES
    configs,      \* AppriseConfig.configs: the list of source references
    objs,         \* the heap: object id -> config source state
    op,           \* the operation that produced this state and its arguments
    status,       \* what that operation returned ("True", "False", "ok") or raised
    response,     \* the list it returned (servers, server_pop, pop)
    pre_configs,  \* configs when that operation was called
    pre_objs,     \* objs when that operation was called
    self          \* the aggregator's own cache, recursion, insecure_includes

vars == <<configs, objs, op, status, response, pre_configs, pre_objs, self>>

None == "None"

(***************************************************************************)
(* Bounds of the model.                                                    *)
(***************************************************************************)
\* the longest source list the aggregator is driven to
MaxConfigs == 2
\* server_pop and pop are called with indexes -MaxIndex .. MaxIndex
MaxIndex == 5

ObjIds == 1 .. MaxConfigs

(***************************************************************************)
(* common.py (not part of the sources at hand): the reserved tags and the  *)
(* configuration formats.                                                  *)
(***************************************************************************)
MATCH_ALL_TAG == "all"
MATCH_ALWAYS_TAG == "always"
CONFIG_FORMATS == {"text", "yaml"}

(***************************************************************************)
(* Sequence helpers.                                                       *)
(***************************************************************************)
RemoveAt(s, k) == SubSeq(s, 1, k - 1) \o SubSeq(s, k + 1, Len(s))

Range(s) == {s[k] : k \in 1 .. Len(s)}

\* Python's list.pop(index): a negative index counts from the end, an index
\* outside -len .. len-1 raises IndexError and leaves the list alone.
ListPop(list, index) ==
    LET n == Len(list)
        k == IF index < 0 THEN index + n + 1 ELSE index + 1
    IN  IF index >= n \/ index < -n
        THEN [status |-> "IndexError", list |-> list, item |-> <<>>]
        ELSE [status |-> "ok", list |-> RemoveAt(list, k), item |-> <<list[k]>>]

(***************************************************************************)
(* Config sources (ConfigBase and its subclasses; their code is not part   *)
(* of the sources at hand, so this follows the specification, 3 and 4.5).  *)
(*                                                                         *)
(* What an origin holds is a list of lines; a line that is a notification  *)
(* URL the registry can build yields one notifier, any other line none.    *)
(***************************************************************************)
TEXT_CONFIG == "mmost://host/TOKEN\npjet://host/SECRET\n"
YAML_CONFIG == "urls:\n - mmost://host/TOKEN\n"

\* the lines found at an origin (a file path or the text of a memory source)
Content(origin) ==
    CASE origin = "/a.cfg"     -> <<"mmost://a/T1", "# comment", "pjet://a/S2",
                                     "mmost://a/", "mmosts://a/T3">>
      [] origin = "/empty.cfg" -> <<"# nothing here">>
      [] origin = TEXT_CONFIG  -> <<"mmost://host/TOKEN", "pjet://host/SECRET">>
      [] origin = YAML_CONFIG  -> <<"mmost://host/TOKEN">>
      [] origin = "/loop.cfg"  -> <<"pjet://loop/S", "import /loop.cfg">>
      [] origin = "/top.cfg"   -> <<"import /mid.cfg", "mmost://top/T">>
      [] origin = "/mid.cfg"   -> <<"mmost://mid/T", "import /leaf.cfg">>
      [] origin = "/leaf.cfg"  -> <<"mmost://leaf/T">>
      [] OTHER                 -> <<>>

\* a line that instantiates as a notifier
IsNotifierUrl(line) ==
    line \in {"mmost://a/T1", "pjet://a/S2", "mmosts://a/T3",
              "mmost://host/TOKEN", "pjet://host/SECRET",
              "pjet://loop/S", "mmost://top/T", "mmost://mid/T", "mmost://leaf/T"}

\* a line that is an import directive, and the origin it names
IsImport(line) ==
    line \in {"import /loop.cfg", "import /mid.cfg", "import /leaf.cfg"}

ImportOf(line) ==
    CASE line = "import /loop.cfg" -> "/loop.cfg"
      [] line = "import /mid.cfg"  -> "/mid.cfg"
      [] line = "import /leaf.cfg" -> "/leaf.cfg"
      [] OTHER                     -> ""

\* the format auto-detected from a text (4.5); None when neither format fits
DetectFormat(content) ==
    CASE content = TEXT_CONFIG -> "text"
      [] content = YAML_CONFIG -> "yaml"
      [] content \in {"/a.cfg", "/empty.cfg", "/loop.cfg", "/top.cfg",
                      "/mid.cfg", "/leaf.cfg"} -> "text"
      [] OTHER -> None

\* a free heap cell
Free ==
    [origin |-> None, tags |-> {}, cache |-> "True", recursion |-> 0,
     insecure_includes |-> FALSE, config_format |-> None,
     loaded |-> FALSE, cached |-> <<>>, fresh |-> FALSE]

\* ConfigBase.__init__: a fresh, not yet loaded source
NewSource(origin, tags, cache, recursion, insecure_includes, format) ==
    [origin |-> origin, tags |-> tags, cache |-> cache, recursion |-> recursion,
     insecure_includes |-> insecure_includes,
     config_format |-> IF format = None THEN DetectFormat(origin) ELSE format,
     loaded |-> FALSE, cached |-> <<>>, fresh |-> FALSE]

\* a cache policy that is a number of seconds
CACHE_SECONDS == "30"

\* ConfigBase.expired(): nothing loaded yet, caching disabled, or more
\* seconds than the cache policy allows gone by since the content was fetched
\* (fresh tells that they have not)
expired(s) ==
    ~(s.loaded /\ (s.cache = "True" \/ (s.cache = CACHE_SECONDS /\ s.fresh)))

\* time goes by, beyond the seconds a cache policy allows
Elapse(s) == [s EXCEPT !.fresh = FALSE]

\* the notifiers of an origin read with a recursion budget: its own, then
\* those of the origins it imports, each read with the budget one lower;
\* with budget 0 no import is followed
RECURSIVE Expand(_, _)
RECURSIVE ExpandImports(_, _, _)
ExpandImports(lines, k, recursion) ==
    IF k > Len(lines) THEN <<>>
    ELSE Expand(ImportOf(lines[k]), recursion - 1)
            \o ExpandImports(lines, k + 1, recursion)

Expand(origin, recursion) ==
    SelectSeq(Content(origin), IsNotifierUrl)
        \o (IF recursion > 0
            THEN ExpandImports(SelectSeq(Content(origin), IsImport), 1, recursion)
            ELSE <<>>)

\* ConfigBase.servers(): fetch and parse unless a cached result may be reused;
\* the result is the source with its list of notifiers in .cached
ConfigBase_servers(s) ==
    IF expired(s)
    THEN [s EXCEPT !.loaded = TRUE, !.fresh = TRUE,
                   !.cached = Expand(s.origin, s.recursion)]
    ELSE s

\* ConfigBase.pop(index): load if nothing is loaded, then pop the cached list
ConfigBase_pop(s, index) ==
    LET e == IF s.loaded THEN s ELSE ConfigBase_servers(s)
        p == ListPop(e.cached, index)
    IN  [src |-> [e EXCEPT !.cached = p.list], status |-> p.status, item |-> p.item]

(***************************************************************************)
(* The tag logic evaluator (utils/logic.py, is_exclusive_match; not part   *)
(* of the sources at hand, modelled from the specification, 4.4).          *)
(* An expression is [kind |-> "str", v |-> tag] or [kind |-> "list",       *)
(* v |-> elements]; an element is [kind |-> "str", v |-> tag] or           *)
(* [kind |-> "group", v |-> <<tags>>].                                     *)
(***************************************************************************)
Str(t) == [kind |-> "str", v |-> t]
Group(ts) == [kind |-> "group", v |-> ts]
List(es) == [kind |-> "list", v |-> es]

\* one OR-branch
element_match(entry, data, match_all, match_always) ==
    IF entry.kind = "str"
    THEN \/ entry.v \in data
         \/ entry.v = match_all
         \/ (match_always # None /\ match_always \in data)
    ELSE \A k \in 1 .. Len(entry.v) : entry.v[k] \in data

\* the OR-list is walked in order and the walk stops at the first branch
\* that is satisfied
RECURSIVE or_walk(_, _, _, _, _)
or_walk(elements, k, data, match_all, match_always) ==
    IF k > Len(elements) THEN FALSE
    ELSE IF element_match(elements[k], data, match_all, match_always) THEN TRUE
    ELSE or_walk(elements, k + 1, data, match_all, match_always)

is_exclusive_match(logic, data, match_all, match_always) ==
    IF logic.kind = "str" /\ logic.v = match_all THEN TRUE
    ELSE or_walk(IF logic.kind = "str" THEN <<logic>> ELSE logic.v,
                 1, data, match_all, match_always)

(***************************************************************************)
(* Configuration URLs.  A URL string is represented by what the code reads *)
(* from it: the schema GET_SCHEMA_RE finds ("" when it finds none),        *)
(* whether the scheme's parse_url accepts it, the path, the cache=,        *)
(* recursion= and insecure_includes= values of its query string, and the   *)
(* exception, if any, with which the scheme's constructor rejects what was *)
(* parsed.                                                                 *)
(***************************************************************************)
Url(schema, parsable, path, cache, recursion, insecure_includes, rejected) ==
    [schema |-> schema, parsable |-> parsable, path |-> path, cache |-> cache,
     recursion |-> recursion, insecure_includes |-> insecure_includes,
     rejected |-> rejected]

\* str.lower() on the schemas used
Lower(x) ==
    CASE x = "FILE" -> "file"
      [] x = "Http" -> "http"
      [] x = "XYZ"  -> "xyz"
      [] OTHER      -> x

\* the schemas registered in the configuration manager C_MGR
C_MGR == {"file", "http", "https", "memory"}

\* C_MGR[schema].parse_url(url): ok is FALSE for a URL the scheme cannot parse
\* (the code's falsy result); else the parsed arguments, with whatever the
\* query string set
parse_url(schema, url) ==
    [ok |-> url.parsable, schema |-> schema, origin |-> url.path,
     cache |-> url.cache, recursion |-> url.recursion,
     insecure_includes |-> url.insecure_includes,
     rejected |-> url.rejected, tag |-> {}]

\* C_MGR[schema](**results): the constructor raises on arguments it rejects;
\* an argument that is absent takes the constructor's default
Construct(results) ==
    IF results.rejected # None
    THEN [status |-> results.rejected, inst |-> Free]
    ELSE [status |-> "ok",
          inst |-> NewSource(results.origin, results.tag,
                     IF results.cache = None THEN "True" ELSE results.cache,
                     IF results.recursion = <<>> THEN 0 ELSE results.recursion[1],
                     IF results.insecure_includes = <<>> THEN FALSE
                     ELSE results.insecure_includes[1],
                     None)]

\* the overrides with the recursion parsed from the URL left in place
instantiate_overrides_keep_url(results, tag, cache, recursion, insecure_includes) ==
    [results EXCEPT
        !.tag = Range(tag),
        !.cache = IF cache # None THEN cache ELSE @,
        !.recursion = IF @ = <<>> THEN <<recursion>> ELSE @,
        !.insecure_includes = <<insecure_includes>>]

\* the overrides instantiate writes into the parsed arguments
instantiate_overrides(results, tag, cache, recursion, insecure_includes) ==
    [results EXCEPT
        !.tag = Range(tag),
        !.cache = IF cache # None THEN cache ELSE @,
        !.recursion = <<recursion>>,
        !.insecure_includes = <<insecure_includes>>]

\* instantiate without the check that the schema is registered: the lookup
\* C_MGR[schema] then fails
instantiate_no_registry_check(url, tag, cache, recursion, insecure_includes, suppress_exceptions) ==
    LET schema == IF url.schema = "" THEN "file" ELSE Lower(url.schema)
    IN  IF schema \notin C_MGR
        THEN [status |-> "KeyError", inst |-> Free]
        ELSE
          LET results == parse_url(schema, url)
          IN  IF ~results.ok
              THEN [status |-> "None", inst |-> Free]
              ELSE
                LET built == Construct(instantiate_overrides(
                                 results, tag, cache, recursion, insecure_includes))
                IN  IF built.status = "ok" THEN built
                    ELSE IF suppress_exceptions
                         THEN [status |-> "None", inst |-> Free]
                         ELSE built

\* instantiate with the constructor's exception swallowed in both modes
instantiate_always_suppress(url, tag, cache, recursion, insecure_includes, suppress_exceptions) ==
    LET schema == IF url.schema = "" THEN "file" ELSE Lower(url.schema)
    IN  IF url.schema # "" /\ schema \notin C_MGR
        THEN [status |-> "None", inst |-> Free]
        ELSE
          LET results == parse_url(schema, url)
          IN  IF ~results.ok
              THEN [status |-> "None", inst |-> Free]
              ELSE
                LET built == Construct(instantiate_overrides(
                                 results, tag, cache, recursion, insecure_includes))
                IN  IF built.status = "ok" THEN built
                    ELSE [status |-> "None", inst |-> Free]

\* AppriseConfig.instantiate: [status, inst]; status "None" is a returned None,
\* "ok" a returned instance, anything else the exception that escapes
instantiate(url, tag, cache, recursion, insecure_includes, suppress_exceptions) ==
    LET schema == IF url.schema = "" THEN "file" ELSE Lower(url.schema)
    IN  IF url.schema # "" /\ schema \notin C_MGR
        THEN [status |-> "None", inst |-> Free]
        ELSE
          LET results == parse_url(schema, url)
          IN  IF ~results.ok
              THEN [status |-> "None", inst |-> Free]
              ELSE
                LET built == Construct(instantiate_overrides(
                                 results, tag, cache, recursion, insecure_includes))
                IN  IF built.status = "ok" THEN built
                    ELSE IF suppress_exceptions
                         THEN [status |-> "None", inst |-> Free]
                         ELSE built

(***************************************************************************)
(* AppriseConfig.  An argument of add is one of: a string (AStr), a config *)
(* source the caller built (ANew) or already holds (ARef, an object of the *)
(* heap), a value of another type (ABad), or a list of these (AList).      *)
(***************************************************************************)
NoUrl == Url("", FALSE, "", None, <<>>, <<>>, None)

AStr(url) == [kind |-> "str", url |-> url, ref |-> 0, src |-> Free, items |-> <<>>]
ARef(id) == [kind |-> "config", url |-> NoUrl, ref |-> id, src |-> Free, items |-> <<>>]
ANew(src) == [kind |-> "config", url |-> NoUrl, ref |-> 0, src |-> src, items |-> <<>>]
ABad == [kind |-> "int", url |-> NoUrl, ref |-> 0, src |-> Free, items |-> <<>>]
AList(items) == [kind |-> "list", url |-> NoUrl, ref |-> 0, src |-> Free, items |-> items]

\* the id a newly listed object gets: the lowest one the list does not hold
NewId(cfgs) ==
    CHOOSE id \in ObjIds :
        /\ id \notin Range(cfgs)
        /\ \A j \in ObjIds : j < id => j \in Range(cfgs)

\* self.configs.append(instance) for a freshly built instance
append_new(h, cfgs, inst) ==
    LET id == NewId(cfgs)
    IN  [objs |-> [h EXCEPT ![id] = inst], configs |-> Append(cfgs, id)]

\* self.configs.append(config) for a source the caller hands over
append_config(h, cfgs, c) ==
    IF c.ref # 0 THEN [objs |-> h, configs |-> Append(cfgs, c.ref)]
    ELSE append_new(h, cfgs, c.src)

\* add_loop with the loop given up at the first element that fails
RECURSIVE add_loop_abort(_, _, _, _, _, _, _, _, _)
add_loop_abort(h, cfgs, items, k, return_status, tag, cache, recursion, insecure_includes) ==
    IF k > Len(items)
    THEN [objs |-> h, configs |-> cfgs, status |-> return_status]
    ELSE
      LET _config == items[k]
      IN  IF _config.kind = "config"
          THEN LET r == append_config(h, cfgs, _config)
               IN  add_loop_abort(r.objs, r.configs, items, k + 1, return_status,
                                  tag, cache, recursion, insecure_includes)
          ELSE IF _config.kind # "str"
          THEN [objs |-> h, configs |-> cfgs, status |-> "False"]
          ELSE
            LET instance == instantiate(_config.url, tag, cache, recursion,
                                        insecure_includes, TRUE)
            IN  IF instance.status # "ok"
                THEN [objs |-> h, configs |-> cfgs, status |-> "False"]
                ELSE LET r == append_new(h, cfgs, instance.inst)
                     IN  add_loop_abort(r.objs, r.configs, items, k + 1,
                                        return_status, tag, cache, recursion,
                                        insecure_includes)

\* the loop of add over the elements of its argument
RECURSIVE add_loop(_, _, _, _, _, _, _, _, _)
add_loop(h, cfgs, items, k, return_status, tag, cache, recursion, insecure_includes) ==
    IF k > Len(items)
    THEN [objs |-> h, configs |-> cfgs, status |-> return_status]
    ELSE
      LET _config == items[k]
      IN  IF _config.kind = "config"
          THEN LET r == append_config(h, cfgs, _config)
               IN  add_loop(r.objs, r.configs, items, k + 1, return_status,
                            tag, cache, recursion, insecure_includes)
          ELSE IF _config.kind # "str"
          THEN add_loop(h, cfgs, items, k + 1, "False",
                        tag, cache, recursion, insecure_includes)
          ELSE
            LET instance == instantiate(_config.url, tag, cache, recursion,
                                        insecure_includes, TRUE)
            IN  IF instance.status # "ok"
                THEN add_loop(h, cfgs, items, k + 1, "False",
                              tag, cache, recursion, insecure_includes)
                ELSE LET r == append_new(h, cfgs, instance.inst)
                     IN  add_loop(r.objs, r.configs, items, k + 1, return_status,
                                  tag, cache, recursion, insecure_includes)

\* add with budget 0 for the sources built without a recursion argument
add_budget_zero(me, h, cfgs, c, tag, cache, recursion, insecure_includes) ==
    LET cache1 == IF cache # None THEN cache ELSE me.cache
        recursion1 == IF recursion # <<>> THEN recursion[1] ELSE 0
        insecure1 == IF insecure_includes # <<>> THEN insecure_includes[1]
                     ELSE me.insecure_includes
    IN  IF c.kind = "config"
        THEN LET r == append_config(h, cfgs, c)
             IN  [objs |-> r.objs, configs |-> r.configs, status |-> "True"]
        ELSE IF c.kind = "str"
        THEN add_loop(h, cfgs, <<c>>, 1, "True", tag, cache1, recursion1, insecure1)
        ELSE IF c.kind # "list"
        THEN [objs |-> h, configs |-> cfgs, status |-> "False"]
        ELSE add_loop(h, cfgs, c.items, 1, "True", tag, cache1, recursion1, insecure1)

\* add with the aggregator's recursion and insecure_includes used whatever
\* the arguments are
add_own_values_only(me, h, cfgs, c, tag, cache, recursion, insecure_includes) ==
    LET cache1 == IF cache # None THEN cache ELSE me.cache
    IN  IF c.kind = "config"
        THEN LET r == append_config(h, cfgs, c)
             IN  [objs |-> r.objs, configs |-> r.configs, status |-> "True"]
        ELSE IF c.kind = "str"
        THEN add_loop(h, cfgs, <<c>>, 1, "True", tag, cache1, me.recursion,
                      me.insecure_includes)
        ELSE IF c.kind # "list"
        THEN [objs |-> h, configs |-> cfgs, status |-> "False"]
        ELSE add_loop(h, cfgs, c.items, 1, "True", tag, cache1, me.recursion,
                      me.insecure_includes)

\* AppriseConfig.add
add(me, h, cfgs, c, tag, cache, recursion, insecure_includes) ==
    LET cache1 == IF cache # None THEN cache ELSE me.cache
        recursion1 == IF recursion # <<>> THEN recursion[1] ELSE me.recursion
        insecure1 == IF insecure_includes # <<>> THEN insecure_includes[1]
                     ELSE me.insecure_includes
    IN  IF c.kind = "config"
        THEN LET r == append_config(h, cfgs, c)
             IN  [objs |-> r.objs, configs |-> r.configs, status |-> "True"]
        ELSE IF c.kind = "str"
        THEN add_loop(h, cfgs, <<c>>, 1, "True", tag, cache1, recursion1, insecure1)
        ELSE IF c.kind # "list"
        THEN [objs |-> h, configs |-> cfgs, status |-> "False"]
        ELSE add_loop(h, cfgs, c.items, 1, "True", tag, cache1, recursion1, insecure1)

\* A content handed to add_config: a string, or a value of another type.
CStr(text) == [type |-> "str", text |-> text]
CInt == [type |-> "int", text |-> ""]

\* add_config that appends the source whatever its format is
add_config_any_format(me, h, cfgs, content, tag, format, recursion, insecure_includes) ==
    IF content.type # "str"
    THEN [objs |-> h, configs |-> cfgs, status |-> "False"]
    ELSE LET r == append_new(h, cfgs,
                     NewSource(content.text, Range(tag), "True", me.recursion,
                               me.insecure_includes, format))
         IN  [objs |-> r.objs, configs |-> r.configs, status |-> "True"]

\* AppriseConfig.add_config
add_config(me, h, cfgs, content, tag, format, recursion, insecure_includes) ==
    LET recursion1 == IF recursion # <<>> THEN recursion[1] ELSE me.recursion
        insecure1 == IF insecure_includes # <<>> THEN insecure_includes[1]
                     ELSE me.insecure_includes
    IN  IF content.type # "str"
        THEN [objs |-> h, configs |-> cfgs, status |-> "False"]
        ELSE
          LET instance == NewSource(content.text, Range(tag), "True",
                                    recursion1, insecure1, format)
          IN  IF ~(instance.config_format # None
                   /\ instance.config_format \in CONFIG_FORMATS)
              THEN [objs |-> h, configs |-> cfgs, status |-> "False"]
              ELSE LET r == append_new(h, cfgs, instance)
                   IN  [objs |-> r.objs, configs |-> r.configs, status |-> "True"]

\* servers with the lists the sources hold returned as they are, not asked for
RECURSIVE servers_loop_stale(_, _, _, _, _, _)
servers_loop_stale(h, cfgs, k, tag, match_always, resp) ==
    IF k > Len(cfgs)
    THEN [objs |-> h, response |-> resp]
    ELSE
      LET id == cfgs[k]
      IN  IF is_exclusive_match(tag, h[id].tags, MATCH_ALL_TAG, match_always)
          THEN servers_loop_stale(h, cfgs, k + 1, tag, match_always,
                                  resp \o h[id].cached)
          ELSE servers_loop_stale(h, cfgs, k + 1, tag, match_always, resp)

\* the loop of servers over self.configs
RECURSIVE servers_loop(_, _, _, _, _, _)
servers_loop(h, cfgs, k, tag, match_always, resp) ==
    IF k > Len(cfgs)
    THEN [objs |-> h, response |-> resp]
    ELSE
      LET id == cfgs[k]
      IN  IF is_exclusive_match(tag, h[id].tags, MATCH_ALL_TAG, match_always)
          THEN LET entry == ConfigBase_servers(h[id])
               IN  servers_loop([h EXCEPT ![id] = entry], cfgs, k + 1, tag,
                                match_always, resp \o entry.cached)
          ELSE servers_loop(h, cfgs, k + 1, tag, match_always, resp)

\* servers that never hands the match-always tag to the filter
servers_without_match_always(h, cfgs, tag, match_always) ==
    servers_loop(h, cfgs, 1, tag, None, <<>>)

\* AppriseConfig.servers
servers(h, cfgs, tag, match_always) ==
    servers_loop(h, cfgs, 1, tag,
                 IF match_always THEN MATCH_ALWAYS_TAG ELSE None, <<>>)

\* server_pop_loop with the local index one too high
RECURSIVE server_pop_loop_off_by_one(_, _, _, _, _)
server_pop_loop_off_by_one(h, cfgs, k, prev_offset, index) ==
    IF k > Len(cfgs)
    THEN [objs |-> h, status |-> "IndexError", response |-> <<>>]
    ELSE
      LET id == cfgs[k]
          entry == ConfigBase_servers(h[id])
          h1 == [h EXCEPT ![id] = entry]
          n == Len(entry.cached)
          offset == prev_offset + n
      IN  IF n > 0
          THEN IF offset >= index
               THEN LET p == ConfigBase_pop(entry,
                                 IF prev_offset = -1 THEN index
                                 ELSE index - prev_offset)
                    IN  [objs |-> [h1 EXCEPT ![id] = p.src],
                         status |-> p.status, response |-> p.item]
               ELSE server_pop_loop_off_by_one(h1, cfgs, k + 1, offset, index)
          ELSE server_pop_loop_off_by_one(h1, cfgs, k + 1, prev_offset, index)

\* server_pop_loop returning nothing, instead of raising, when the index is
\* beyond the last notifier
RECURSIVE server_pop_loop_silent(_, _, _, _, _)
server_pop_loop_silent(h, cfgs, k, prev_offset, index) ==
    IF k > Len(cfgs)
    THEN [objs |-> h, status |-> "ok", response |-> <<>>]
    ELSE
      LET id == cfgs[k]
          entry == ConfigBase_servers(h[id])
          h1 == [h EXCEPT ![id] = entry]
          n == Len(entry.cached)
          offset == prev_offset + n
      IN  IF n > 0
          THEN IF offset >= index
               THEN LET p == ConfigBase_pop(entry,
                                 IF prev_offset = -1 THEN index
                                 ELSE index - prev_offset - 1)
                    IN  [objs |-> [h1 EXCEPT ![id] = p.src],
                         status |-> p.status, response |-> p.item]
               ELSE server_pop_loop_silent(h1, cfgs, k + 1, offset, index)
          ELSE server_pop_loop_silent(h1, cfgs, k + 1, prev_offset, index)

\* the loop of server_pop over self.configs
RECURSIVE server_pop_loop(_, _, _, _, _)
server_pop_loop(h, cfgs, k, prev_offset, index) ==
    IF k > Len(cfgs)
    THEN [objs |-> h, status |-> "IndexError", response |-> <<>>]
    ELSE
      LET id == cfgs[k]
          entry == ConfigBase_servers(h[id])
          h1 == [h EXCEPT ![id] = entry]
          n == Len(entry.cached)
          offset == prev_offset + n
      IN  IF n > 0
          THEN IF offset >= index
               THEN LET p == ConfigBase_pop(entry,
                                 IF prev_offset = -1 THEN index
                                 ELSE index - prev_offset - 1)
                    IN  [objs |-> [h1 EXCEPT ![id] = p.src],
                         status |-> p.status, response |-> p.item]
               ELSE server_pop_loop(h1, cfgs, k + 1, offset, index)
          ELSE server_pop_loop(h1, cfgs, k + 1, prev_offset, index)

\* AppriseConfig.server_pop
server_pop(h, cfgs, index) == server_pop_loop(h, cfgs, 1, -1, index)

\* pop that takes no index counted from the end
pop_from_front_only(cfgs, index) ==
    IF index < 0 THEN [status |-> "IndexError", list |-> cfgs, item |-> <<>>]
    ELSE ListPop(cfgs, index)

\* AppriseConfig.pop
pop(cfgs, index) == ListPop(cfgs, index)

\* clear that leaves the first source listed
clear_all_but_first(cfgs) == IF cfgs = <<>> THEN <<>> ELSE <<cfgs[1]>>

\* AppriseConfig.clear
clear(cfgs) == <<>>

\* AppriseConfig.__bool__
bool(cfgs) == cfgs # <<>>

\* AppriseConfig.__len__
len(cfgs) == Len(cfgs)

\* an object no list position refers to any more is released
Release(h, cfgs) == [id \in ObjIds |-> IF id \in Range(cfgs) THEN h[id] ELSE Free]

(***************************************************************************)
(* The inputs the aggregator is driven with.                               *)
(***************************************************************************)
U_a          == Url("file", TRUE, "/a.cfg", None, <<>>, <<>>, None)
U_plain      == Url("", TRUE, "/empty.cfg", None, <<>>, <<>>, None)
U_upper      == Url("FILE", TRUE, "/empty.cfg", None, <<>>, <<>>, None)
U_embedded   == Url("file", TRUE, "/empty.cfg", "False", <<3>>, <<TRUE>>, None)
U_xyz        == Url("xyz", TRUE, "/a.cfg", None, <<>>, <<>>, None)
U_XYZ        == Url("XYZ", TRUE, "/a.cfg", "False", <<3>>, <<TRUE>>, None)
U_unparsable == Url("http", FALSE, "", None, <<>>, <<>>, None)
U_rejected   == Url("file", TRUE, "/a.cfg", None, <<>>, <<>>, "TypeError")
U_rejected2  == Url("Http", TRUE, "/a.cfg", "True", <<1>>, <<FALSE>>, "ValueError")

Urls ==
    {U_a, U_plain, U_upper, U_embedded, U_xyz, U_XYZ, U_unparsable, U_rejected,
     U_rejected2}

\* a memory source the caller builds itself and hands to add
Prebuilt == NewSource(TEXT_CONFIG, {MATCH_ALWAYS_TAG}, "True", 0, FALSE, "text")

\* the tag, cache, recursion and insecure_includes arguments of add
Defaults ==
    [tag |-> <<>>, cache |-> None, recursion |-> <<>>, insecure_includes |-> <<>>]
Tagged ==
    [tag |-> <<"a">>, cache |-> "False", recursion |-> <<>>, insecure_includes |-> <<>>]

AddCall(c, args) == [c |-> c, args |-> args]

\* the calls of add: single strings that load and that fail, a value of a
\* wrong type, sources the caller built or already listed, and lists mixing them
AddCalls(cfgs) ==
    {AddCall(AStr(u), Defaults) :
        u \in {U_plain, U_upper, U_embedded, U_xyz, U_XYZ, U_unparsable, U_rejected}}
    \cup {AddCall(AStr(U_a), Tagged), AddCall(ABad, Defaults),
          AddCall(ANew(Prebuilt), Tagged),
          AddCall(AList(<<>>), Defaults),
          AddCall(AList(<<AStr(U_xyz), AStr(U_plain)>>), Defaults),
          AddCall(AList(<<AStr(U_a), ABad, ANew(Prebuilt)>>), Tagged),
          AddCall(AList(<<ANew(Prebuilt), AStr(U_rejected), AStr(U_a)>>), Tagged),
          AddCall(AList(<<AStr(U_unparsable), AStr(U_embedded), AStr(U_XYZ)>>), Defaults)}
    \cup {AddCall(ARef(id), Tagged) : id \in Range(cfgs)}
    \cup {AddCall(AList(<<ARef(id), AStr(U_xyz)>>), Defaults) : id \in Range(cfgs)}

\* how many sources an argument of add may append
Appendable(c) ==
    IF c.kind = "list"
    THEN Cardinality({k \in 1 .. Len(c.items) : c.items[k].kind \in {"config", "str"}})
    ELSE 1

\* the calls of add_config: [content, format, tag]
AddConfigCalls ==
    {[content |-> CStr(TEXT_CONFIG), format |-> f, tag |-> <<MATCH_ALWAYS_TAG>>] :
        f \in {None, "text", "xml"}}
    \cup {[content |-> c, format |-> None, tag |-> <<>>] :
            c \in {CStr(""), CStr("{[garbage"), CInt}}
    \cup {[content |-> CInt, format |-> "text", tag |-> <<>>]}

TagExprs ==
    {Str(MATCH_ALL_TAG), Str("a"), List(<<Group(<<"a", "b">>), Str("b")>>)}

SelfValues == {[cache |-> "True", recursion |-> 0, insecure_includes |-> FALSE]}

(***************************************************************************)
(* The state machine: AppriseConfig() and its operations.                  *)
(***************************************************************************)
Init ==
    /\ configs = <<>>
    /\ objs = [id \in ObjIds |-> Free]
    /\ op = [name |-> "idle"]
    /\ status = "ok"
    /\ response = <<>>
    /\ pre_configs = <<>>
    /\ pre_objs = [id \in ObjIds |-> Free]
    /\ self \in SelfValues

\* a call starts when no call is in progress; the state it leaves keeps what
\* the aggregator was when it was called
Called ==
    /\ op.name = "idle"
    /\ pre_configs' = configs
    /\ pre_objs' = objs
    /\ UNCHANGED self

\* the call returns: the caller has its result, the aggregator is as left
Return ==
    /\ op.name # "idle"
    /\ op' = [name |-> "idle"]
    /\ status' = "ok"
    /\ response' = <<>>
    /\ pre_configs' = <<>>
    /\ pre_objs' = [id \in ObjIds |-> Free]
    /\ UNCHANGED <<configs, objs, self>>

Add ==
    \E call \in AddCalls(configs) :
        /\ Called
        /\ Len(configs) + Appendable(call.c) <= MaxConfigs
        /\ LET r == add(self, objs, configs, call.c, call.args.tag, call.args.cache,
                        call.args.recursion, call.args.insecure_includes)
           IN  /\ configs' = r.configs
               /\ objs' = r.objs
               /\ status' = r.status
        /\ response' = <<>>
        /\ op' = [name |-> "add", c |-> call.c, args |-> call.args]

AddConfig ==
    \E call \in AddConfigCalls :
        /\ Called
        /\ Len(configs) < MaxConfigs
        /\ LET r == add_config(self, objs, configs, call.content, call.tag,
                               call.format, <<>>, <<>>)
           IN  /\ configs' = r.configs
               /\ objs' = r.objs
               /\ status' = r.status
        /\ response' = <<>>
        /\ op' = [name |-> "add_config", content |-> call.content,
                  format |-> call.format, tag |-> call.tag]

Servers ==
    \E tag \in TagExprs, match_always \in BOOLEAN :
        /\ Called
        /\ LET r == servers(objs, configs, tag, match_always)
           IN  /\ objs' = r.objs
               /\ response' = r.response
        /\ status' = "ok"
        /\ op' = [name |-> "servers", tag |-> tag, match_always |-> match_always]
        /\ UNCHANGED configs

ServerPop ==
    \E index \in (-MaxIndex) .. MaxIndex :
        /\ Called
        /\ LET r == server_pop(objs, configs, index)
           IN  /\ objs' = r.objs
               /\ response' = r.response
               /\ status' = r.status
        /\ op' = [name |-> "server_pop", index |-> index]
        /\ UNCHANGED configs

Pop ==
    \E index \in (-MaxIndex) .. MaxIndex :
        /\ Called
        /\ LET r == pop(configs, index)
           IN  /\ configs' = r.list
               /\ objs' = Release(objs, r.list)
               /\ response' = r.item
               /\ status' = r.status
        /\ op' = [name |-> "pop", index |-> index]

Clear ==
    /\ Called
    /\ configs' = clear(configs)
    /\ objs' = Release(objs, clear(configs))
    /\ response' = <<>>
    /\ status' = "ok"
    /\ op' = [name |-> "clear"]

BoolOf ==
    /\ Called
    /\ response' = <<bool(configs)>>
    /\ status' = "ok"
    /\ op' = [name |-> "bool"]
    /\ UNCHANGED <<configs, objs>>

LenOf ==
    /\ Called
    /\ response' = <<len(configs)>>
    /\ status' = "ok"
    /\ op' = [name |-> "len"]
    /\ UNCHANGED <<configs, objs>>

Next ==
    \/ Add \/ AddConfig \/ Servers \/ ServerPop \/ Pop \/ Clear
    \/ BoolOf \/ LenOf \/ Return

Spec == Init /\ [][Next]_vars

(***************************************************************************)
(* AppriseConfig.instantiate called directly (it is a static method), next *)
(* to add, which calls it for every string.                                *)
(***************************************************************************)
Instantiate ==
    \E url \in Urls, tag \in {<<>>, <<"a">>}, cache \in {None, "True", "False"},
       recursion \in {0, 2}, insecure_includes \in BOOLEAN,
       suppress_exceptions \in BOOLEAN :
        /\ Called
        /\ LET r == instantiate(url, tag, cache, recursion, insecure_includes,
                                suppress_exceptions)
           IN  /\ status' = r.status
               /\ response' = IF r.status = "ok" THEN <<r.inst>> ELSE <<>>
        /\ op' = [name |-> "instantiate", url |-> url, tag |-> tag, cache |-> cache,
                  recursion |-> recursion, insecure_includes |-> insecure_includes,
                  suppress_exceptions |-> suppress_exceptions]
        /\ UNCHANGED <<configs, objs>>



(***************************************************************************)
(* The notification plugins.  A notifier URL is the record of its parts:   *)
(* [schema, user, password, host, port, path, qsd], the path being the     *)
(* list of its segments and a port that is absent being NoPort.  URLBase   *)
(* and NotifyBase (quote, unquote, split_path, parse_url, the attributes   *)
(* secure, user, password, host, port) are not part of the sources at      *)
(* hand and follow the specification (4.1).                                *)
(***************************************************************************)
NoPort == 0

\* URLBase.quote and unquote on the strings used
Quote(x) == CASE x = "a bot" -> "a%20bot" [] OTHER -> x
Unquote(x) == CASE x = "a%20bot" -> "a bot" [] OTHER -> x

\* split_path: the segments of a path
SplitPath(path) ==
    CASE path = ""      -> <<>>
      [] path = "/a"    -> <<"a">>
      [] path = "/a/b"  -> <<"a", "b">>
      [] OTHER          -> <<path>>

\* "/" + "/".join(tokens)
JoinPath(tokens) ==
    CASE tokens = <<>>          -> ""
      [] tokens = <<"a">>       -> "/a"
      [] tokens = <<"a", "b">>  -> "/a/b"
      [] OTHER                  -> "/?"

\* validate_regex with the default expression: the value, or None when it is
\* None or empty
validate_regex(value) == IF value \in {None, "", " "} THEN None ELSE value

\* NotifyBase.parse_url: the parts of the URL; the schemas ending in "s" are
\* the secure ones
NotifyBase_parse_url(url) ==
    [secure |-> url.schema \in {"mmosts", "pjets"},
     user |-> IF url.user = None THEN None ELSE Unquote(url.user),
     password |-> IF url.password = None THEN None ELSE Unquote(url.password),
     host |-> url.host, port |-> url.port, fullpath |-> url.path, qsd |-> url.qsd]

\* x.lstrip("#") on the channels used
LstripHash(x) == CASE x = "#general" -> "general" [] x = "#" -> "" [] OTHER -> x

\* NotifyMattermost.__init__: [status, obj]
NotifyMattermost_init(secure, user, host, port, fullpath, token, channels, include_image) ==
    IF validate_regex(token) = None
    THEN [status |-> "TypeError",
          obj |-> [plugin |-> "mattermost", secure |-> secure, user |-> user,
                   password |-> None, host |-> host, port |-> port,
                   fullpath |-> "", token |-> None, channels |-> <<>>,
                   include_image |-> FALSE]]
    ELSE [status |-> "ok",
          obj |-> [plugin |-> "mattermost", secure |-> secure, user |-> user,
                   password |-> None, host |-> host, port |-> port,
                   fullpath |-> fullpath, token |-> validate_regex(token),
                   channels |-> [i \in 1 .. Len(channels) |-> LstripHash(channels[i])], include_image |-> include_image]]

\* NotifyMattermost.url_identifier
NotifyMattermost_url_identifier(n) ==
    <<IF n.secure THEN "mmosts" ELSE "mmost", n.token, n.host, n.port, n.fullpath>>

\* NotifyMattermost.url(privacy=False)
NotifyMattermost_url(n) ==
    LET default_port == IF n.secure THEN 443 ELSE 80
    IN  [schema |-> IF n.secure THEN "mmosts" ELSE "mmost",
         user |-> IF n.user # None /\ n.user # "" THEN Quote(n.user) ELSE None,
         password |-> None,
         host |-> n.host,
         port |-> IF n.port = NoPort \/ n.port = default_port THEN NoPort ELSE n.port,
         path |-> (IF n.fullpath = "" THEN <<>> ELSE SplitPath(n.fullpath))
                  \o <<Quote(n.token)>>,
         qsd |-> [image |-> IF n.include_image THEN "yes" ELSE "no",
                  channel |-> n.channels, secret |-> None]]

\* NotifyMattermost.parse_url followed by the constructor
NotifyMattermost_parse_url(url) ==
    LET results == NotifyBase_parse_url(url)
        tokens == results.fullpath
        n == Len(tokens)
    IN  [secure |-> results.secure, user |-> results.user, host |-> results.host,
         port |-> results.port,
         token |-> IF n = 0 THEN None ELSE Unquote(tokens[n]),
         fullpath |-> IF n <= 1 THEN "" ELSE JoinPath(SubSeq(tokens, 1, n - 1)),
         channels |-> results.qsd.channel,
         include_image |-> IF results.qsd.image = None THEN TRUE
                           ELSE results.qsd.image = "yes"]

\* NotifyPushjet.__init__: [status, obj]
NotifyPushjet_init(secure, user, password, host, port, secret_key) ==
    IF validate_regex(secret_key) = None
    THEN [status |-> "TypeError",
          obj |-> [plugin |-> "pushjet", secure |-> secure, user |-> user,
                   password |-> password, host |-> host, port |-> port,
                   secret_key |-> None]]
    ELSE [status |-> "ok",
          obj |-> [plugin |-> "pushjet", secure |-> secure, user |-> user,
                   password |-> password, host |-> host, port |-> port,
                   secret_key |-> validate_regex(secret_key)]]

\* NotifyPushjet.url_identifier
NotifyPushjet_url_identifier(n) ==
    <<IF n.secure THEN "pjets" ELSE "pjet", n.user, n.password, n.host, n.port,
      n.secret_key>>

\* NotifyPushjet.url(privacy=False)
NotifyPushjet_url(n) ==
    LET default_port == IF n.secure THEN 443 ELSE 80
        auth == n.user \notin {None, ""} /\ n.password \notin {None, ""}
    IN  [schema |-> IF n.secure THEN "pjets" ELSE "pjet",
         user |-> IF auth THEN Quote(n.user) ELSE None,
         password |-> IF auth THEN Quote(n.password) ELSE None,
         host |-> n.host,
         port |-> IF n.port = NoPort \/ n.port = default_port THEN NoPort ELSE n.port,
         path |-> <<Quote(n.secret_key)>>,
         qsd |-> [image |-> None, channel |-> <<>>, secret |-> None]]

\* NotifyPushjet.parse_url
NotifyPushjet_parse_url(url) ==
    LET results == NotifyBase_parse_url(url)
    IN  [secure |-> results.secure, user |-> results.user,
         password |-> results.password, host |-> results.host,
         port |-> results.port,
         secret_key |->
            IF results.qsd.secret \notin {None, ""} THEN Unquote(results.qsd.secret)
            ELSE IF results.fullpath = <<>> THEN None
            ELSE Unquote(results.fullpath[1])]

\* the arguments the notifiers are built from
Ports == {NoPort, 80, 443, 8065}
MattermostArgs ==
    [secure : BOOLEAN, user : {None, "a bot"}, host : {"host"}, port : Ports,
     fullpath : {"", "/a/b"}, token : {None, "", "TOKEN"},
     channels : {<<>>, <<"#general">>}]
PushjetArgs ==
    [secure : BOOLEAN, user : {None, "a bot"}, password : {None, "pw"},
     host : {"host"}, port : Ports, secret_key : {None, "SECRET"}]

\* a notifier is built, its url() is parsed by the plugin's parse_url, and a
\* second notifier is built from what was parsed
MattermostRoundTrip ==
    \E a \in MattermostArgs :
        /\ Called
        /\ LET first == NotifyMattermost_init(a.secure, a.user, a.host, a.port,
                            a.fullpath, a.token, a.channels, TRUE)
               r == NotifyMattermost_parse_url(NotifyMattermost_url(first.obj))
               second == NotifyMattermost_init(r.secure, r.user, r.host, r.port,
                             r.fullpath, r.token, r.channels, r.include_image)
           IN  /\ status' = first.status
               /\ response' = IF first.status = "ok"
                              THEN <<first.obj, second.obj>> ELSE <<>>
        /\ op' = [name |-> "mattermost", args |-> a]
        /\ UNCHANGED <<configs, objs>>

PushjetRoundTrip ==
    \E a \in PushjetArgs :
        /\ Called
        /\ LET first == NotifyPushjet_init(a.secure, a.user, a.password, a.host,
                            a.port, a.secret_key)
               r == NotifyPushjet_parse_url(NotifyPushjet_url(first.obj))
               second == NotifyPushjet_init(r.secure, r.user, r.password, r.host,
                             r.port, r.secret_key)
           IN  /\ status' = first.status
               /\ response' = IF first.status = "ok"
                              THEN <<first.obj, second.obj>> ELSE <<>>
        /\ op' = [name |-> "pushjet", args |-> a]
        /\ UNCHANGED <<configs, objs>>


\* A native webhook URL, http(s)://HOST[:PORT]/hooks/TOKEN, by its parts:
\* whether it is https, the host, the port (NoPort when it names none) and
\* the token.

\* whether the expression of parse_native_url matches: the host has to start
\* with "mattermost."
NativeMatches(url) == url.host \in {"mattermost.host"}

\* NotifyMattermost.parse_native_url: [ok, results]; ok is FALSE for the None
\* returned when the expression does not match
NotifyMattermost_parse_native_url(url) ==
    LET default_port == IF url.port # NoPort THEN url.port
                        ELSE IF url.secure THEN 443 ELSE 80
        default_schema == IF url.secure THEN "mmosts" ELSE "mmost"
        rebuilt == [schema |-> default_schema, user |-> None, password |-> None,
                    host |-> url.host,
                    port |-> IF url.port = NoPort \/ url.port = default_port
                             THEN NoPort ELSE default_port,
                    path |-> <<url.token>>,
                    qsd |-> [image |-> None, channel |-> <<>>, secret |-> None]]
    IN  [ok |-> NativeMatches(url), results |-> NotifyMattermost_parse_url(rebuilt)]

NativeUrls ==
    [secure : BOOLEAN, host : {"mattermost.host", "chat.host"}, port : Ports,
     token : {"TOKEN"}]

ParseNativeUrl ==
    \E url \in NativeUrls :
        /\ Called
        /\ LET r == NotifyMattermost_parse_native_url(url)
           IN  /\ status' = IF r.ok THEN "ok" ELSE "None"
               /\ response' = IF r.ok THEN <<r.results>> ELSE <<>>
        /\ op' = [name |-> "parse_native_url", url |-> url]
        /\ UNCHANGED <<configs, objs>>

\* instantiate, the notifier constructors and their URLs
NextInst ==
    \/ Instantiate \/ Add \/ MattermostRoundTrip \/ PushjetRoundTrip
    \/ ParseNativeUrl \/ Return

SpecInst == Init /\ [][NextInst]_vars

\* the tag sets of the sources and the tag expressions of the tag filter
TagSets == SUBSET {"a", "b", MATCH_ALWAYS_TAG}

AllTagExprs ==
    {Str(MATCH_ALL_TAG), Str("a"), Str("b"),
     List(<<Group(<<"a", "b">>)>>),
     List(<<Str("a"), Str("b")>>),
     List(<<Group(<<"a", "b">>), Str("b")>>),
     List(<<Str(MATCH_ALL_TAG)>>)}

\* an aggregator holding memory sources added by add_config with a tag
InitTag ==
    /\ \E n \in 1 .. MaxConfigs :
          /\ configs = [k \in 1 .. n |-> k]
          /\ \E tags \in [1 .. n -> TagSets] :
                objs = [id \in ObjIds |->
                           IF id <= n
                           THEN NewSource(TEXT_CONFIG, tags[id], "True", 0, FALSE, None)
                           ELSE Free]
    /\ op = [name |-> "idle"]
    /\ status = "ok"
    /\ response = <<>>
    /\ pre_configs = <<>>
    /\ pre_objs = [id \in ObjIds |-> Free]
    /\ self \in SelfValues

ServersTagged ==
    \E tag \in AllTagExprs, match_always \in BOOLEAN :
        /\ Called
        /\ LET r == servers(objs, configs, tag, match_always)
           IN  /\ objs' = r.objs
               /\ response' = r.response
        /\ status' = "ok"
        /\ op' = [name |-> "servers", tag |-> tag, match_always |-> match_always]
        /\ UNCHANGED configs

NextTag == ServersTagged \/ Return

SpecTag == InitTag /\ [][NextTag]_vars

(***************************************************************************)
(* The aggregator built with arguments: AppriseConfig(paths, cache,        *)
(* recursion, insecure_includes), and add and add_config called with and   *)
(* without the arguments that override the aggregator's own values.        *)
(***************************************************************************)
MaxRecursion == 2

U_loop == Url("file", TRUE, "/loop.cfg", None, <<>>, <<>>, None)
U_top  == Url("file", TRUE, "/top.cfg", None, <<>>, <<>>, None)

\* paths=None
ANone == [kind |-> "none", url |-> NoUrl, ref |-> 0, src |-> Free, items |-> <<>>]

\* AppriseConfig.__init__: the empty list, then self.add(paths) when paths are
\* given; add is called with nothing but the paths, so with its own defaults
\* tag=None, cache=True, recursion=None, insecure_includes=None
AppriseConfig_init(me, paths) ==
    IF paths.kind = "none"
    THEN [objs |-> [id \in ObjIds |-> Free], configs |-> <<>>]
    ELSE LET r == add(me, [id \in ObjIds |-> Free], <<>>, paths,
                      <<>>, "True", <<>>, <<>>)
         IN  [objs |-> r.objs, configs |-> r.configs]

\* the cache, recursion and insecure_includes the aggregator is built with
CtorSelf ==
    {[cache |-> "True", recursion |-> 0, insecure_includes |-> FALSE],
     [cache |-> "False", recursion |-> 1, insecure_includes |-> TRUE],
     [cache |-> CACHE_SECONDS, recursion |-> MaxRecursion, insecure_includes |-> FALSE]}

CtorPaths == {ANone, AStr(U_loop), AList(<<AStr(U_top)>>)}

InitArgs ==
    /\ self \in CtorSelf
    /\ \E paths \in CtorPaths :
          /\ configs = AppriseConfig_init(self, paths).configs
          /\ objs = AppriseConfig_init(self, paths).objs
          /\ op = [name |-> "init", paths |-> paths]
    /\ status = "ok"
    /\ response = <<>>
    /\ pre_configs = <<>>
    /\ pre_objs = [id \in ObjIds |-> Free]

Explicit ==
    [tag |-> <<"b">>, cache |-> "False", recursion |-> <<1>>,
     insecure_includes |-> <<TRUE>>]
Deep ==
    [tag |-> <<>>, cache |-> CACHE_SECONDS, recursion |-> <<MaxRecursion>>,
     insecure_includes |-> <<>>]

ArgCalls(cfgs) ==
    {AddCall(AStr(U_loop), Defaults), AddCall(AStr(U_loop), Explicit),
     AddCall(AStr(U_top), Deep), AddCall(ANew(Prebuilt), Explicit),
     AddCall(AList(<<ANew(Prebuilt), ABad, AStr(U_top)>>), Explicit)}
    \cup {AddCall(ARef(id), Deep) : id \in Range(cfgs)}

AddWithArgs ==
    \E call \in ArgCalls(configs) :
        /\ Called
        /\ Len(configs) + Appendable(call.c) <= MaxConfigs
        /\ LET r == add(self, objs, configs, call.c, call.args.tag, call.args.cache,
                        call.args.recursion, call.args.insecure_includes)
           IN  /\ configs' = r.configs
               /\ objs' = r.objs
               /\ status' = r.status
        /\ response' = <<>>
        /\ op' = [name |-> "add", c |-> call.c, args |-> call.args]

AddConfigWithArgs ==
    \E args \in {[recursion |-> <<>>, insecure_includes |-> <<>>],
                 [recursion |-> <<1>>, insecure_includes |-> <<TRUE>>],
                 [recursion |-> <<0>>, insecure_includes |-> <<FALSE>>]} :
        /\ Called
        /\ Len(configs) < MaxConfigs
        /\ LET r == add_config(self, objs, configs, CStr(TEXT_CONFIG), <<"b">>,
                               None, args.recursion, args.insecure_includes)
           IN  /\ configs' = r.configs
               /\ objs' = r.objs
               /\ status' = r.status
        /\ response' = <<>>
        /\ op' = [name |-> "add_config", content |-> CStr(TEXT_CONFIG),
                  format |-> None, tag |-> <<"b">>, args |-> args]

NextArgs == AddWithArgs \/ AddConfigWithArgs \/ Servers \/ Return

SpecArgs == InitArgs /\ [][NextArgs]_vars

(***************************************************************************)
(* send of the two plugins.  What a send does to the outside is the list   *)
(* of its events in order: a call of throttle(), or a POST with its URL,   *)
(* the channel its payload names (None when it names none) and the way the *)
(* request ends: "200", another status code, or a RequestException.        *)
(***************************************************************************)
MaxChannels == 3

Throttle == [kind |-> "throttle", url |-> <<>>, channel |-> None, outcome |-> None]
Post(url, channel, outcome) ==
    [kind |-> "post", url |-> url, channel |-> channel, outcome |-> outcome]

PostOutcomes == {"200", "500", "RequestException"}

\* fullpath.rstrip("/") on the paths used
RstripSlash(x) == CASE x = "/a/" -> "/a" [] x = "/" -> "" [] OTHER -> x

\* the URL NotifyMattermost.send posts to
NotifyMattermost_hook(n) ==
    <<IF n.secure THEN "https" ELSE "http", n.host,
      IF n.port # NoPort THEN <<n.port>> ELSE <<>>,
      RstripSlash(n.fullpath), "hooks", n.token>>

\* the loop of send given up at the first POST that fails
RECURSIVE send_loop_stop_at_failure(_, _, _, _, _, _)
send_loop_stop_at_failure(n, channels, outcomes, payload_channel, has_error, events) ==
    IF channels = <<>>
    THEN [status |-> IF has_error THEN "False" ELSE "True", events |-> events]
    ELSE
      LET channel == Head(channels)
          payload1 == IF channel # None /\ channel # "" THEN channel
                      ELSE payload_channel
          done == events \o <<Throttle,
                              Post(NotifyMattermost_hook(n), payload1, Head(outcomes))>>
      IN  IF Head(outcomes) # "200"
          THEN [status |-> "False", events |-> done]
          ELSE send_loop_stop_at_failure(n, Tail(channels), Tail(outcomes),
                                         payload1, has_error, done)

\* the loop of send with throttle() called before the first POST only
RECURSIVE send_loop_throttle_once(_, _, _, _, _, _)
send_loop_throttle_once(n, channels, outcomes, payload_channel, has_error, events) ==
    IF channels = <<>>
    THEN [status |-> IF has_error THEN "False" ELSE "True", events |-> events]
    ELSE
      LET channel == Head(channels)
          payload1 == IF channel # None /\ channel # "" THEN channel
                      ELSE payload_channel
          posted == <<Post(NotifyMattermost_hook(n), payload1, Head(outcomes))>>
      IN  send_loop_throttle_once(n, Tail(channels), Tail(outcomes), payload1,
                                  has_error \/ Head(outcomes) # "200",
                                  events \o (IF events = <<>> THEN <<Throttle>> ELSE <<>>)
                                         \o posted)

\* the loop of NotifyMattermost.send over the channels: outcomes are the ways
\* the requests end, one for each POST
RECURSIVE send_loop(_, _, _, _, _, _)
send_loop(n, channels, outcomes, payload_channel, has_error, events) ==
    IF channels = <<>>
    THEN [status |-> IF has_error THEN "False" ELSE "True", events |-> events]
    ELSE
      LET channel == Head(channels)
          payload1 == IF channel # None /\ channel # "" THEN channel
                      ELSE payload_channel
      IN  send_loop(n, Tail(channels), Tail(outcomes), payload1,
                    has_error \/ Head(outcomes) # "200",
                    events \o <<Throttle,
                                Post(NotifyMattermost_hook(n), payload1, Head(outcomes))>>)

\* send with the channels popped off the notifier's own list, not off a copy
NotifyMattermost_send_in_place(n, outcomes) ==
    LET r == send_loop(n, IF n.channels # <<>> THEN n.channels ELSE <<None>>,
                       outcomes, None, FALSE, <<>>)
    IN  [status |-> r.status, events |-> r.events,
         notifier |-> [n EXCEPT !.channels = <<>>]]

\* NotifyMattermost.send: what it returns, its events, and the notifier as
\* the call leaves it; the loop works on list(self.channels)
NotifyMattermost_send(n, outcomes) ==
    LET r == send_loop(n, IF n.channels # <<>> THEN n.channels ELSE <<None>>,
                       outcomes, None, FALSE, <<>>)
    IN  [status |-> r.status, events |-> r.events, notifier |-> n]

\* NotifyPushjet.send
NotifyPushjet_send(n, outcome) ==
    [status |-> IF outcome = "200" THEN "True" ELSE "False",
     notifier |-> n,
     events |-> <<Throttle,
                  Post(<<IF n.secure THEN "https" ELSE "http", n.host,
                         IF n.port # NoPort THEN <<n.port>> ELSE <<>>, "message">>,
                       None, outcome)>>]

\* the channels a Mattermost notifier is built with
ChannelLists ==
    {SubSeq(<<"#general", "alerts", "ops", "dev", "qa">>, 1, k) : k \in 0 .. MaxChannels}
    \cup {<<"#">>, <<"!ops", "#">>}

MattermostSend ==
    \E secure \in BOOLEAN, port \in {NoPort, 8065}, channels \in ChannelLists :
        LET built == NotifyMattermost_init(secure, None, "host", port, "/a/",
                                           "TOKEN", channels, FALSE)
        IN  \E outcomes \in [1 .. (IF channels = <<>> THEN 1 ELSE Len(channels))
                                -> PostOutcomes] :
                /\ Called
                /\ LET r == NotifyMattermost_send(built.obj, outcomes)
                   IN  /\ status' = r.status
                       /\ response' = r.events
                /\ op' = [name |-> "mattermost_send", notifier |-> built.obj,
                          after |-> NotifyMattermost_send(built.obj, outcomes).notifier,
                          outcomes |-> outcomes]
                /\ UNCHANGED <<configs, objs>>

PushjetSend ==
    \E secure \in BOOLEAN, port \in {NoPort, 8065}, user \in {None, "a bot"},
       outcome \in PostOutcomes :
        LET built == NotifyPushjet_init(secure, user, "pw", "host", port, "SECRET")
        IN  /\ Called
            /\ LET r == NotifyPushjet_send(built.obj, outcome)
               IN  /\ status' = r.status
                   /\ response' = r.events
            /\ op' = [name |-> "pushjet_send", notifier |-> built.obj,
                      after |-> NotifyPushjet_send(built.obj, outcome).notifier,
                      outcomes |-> <<outcome>>]
            /\ UNCHANGED <<configs, objs>>

\* send has returned and the caller's next call is send on the same notifier
MattermostSendAgain ==
    /\ op.name = "mattermost_send"
    /\ \E outcomes \in [1 .. (IF op.after.channels = <<>> THEN 1
                               ELSE Len(op.after.channels)) -> PostOutcomes] :
          LET r == NotifyMattermost_send(op.after, outcomes)
          IN  /\ status' = r.status
              /\ response' = r.events
              /\ op' = [name |-> "mattermost_send_again", notifier |-> op.notifier,
                        after |-> r.notifier, first |-> response,
                        outcomes |-> outcomes]
    /\ UNCHANGED <<configs, objs, pre_configs, pre_objs, self>>

PushjetSendAgain ==
    /\ op.name = "pushjet_send"
    /\ \E outcome \in PostOutcomes :
          LET r == NotifyPushjet_send(op.after, outcome)
          IN  /\ status' = r.status
              /\ response' = r.events
              /\ op' = [name |-> "pushjet_send_again", notifier |-> op.notifier,
                        after |-> r.notifier, first |-> response,
                        outcomes |-> <<outcome>>]
    /\ UNCHANGED <<configs, objs, pre_configs, pre_objs, self>>

NextSend ==
    \/ MattermostSend \/ PushjetSend \/ MattermostSendAgain \/ PushjetSendAgain
    \/ Return

SpecSend == Init /\ [][NextSend]_vars

(***************************************************************************)
(* Sources of every cache policy, notifiers popped from them, and the      *)
(* servers() call that follows a server_pop.                               *)
(***************************************************************************)
CachePolicies == {"True", "False", CACHE_SECONDS}

\* an aggregator to which /a.cfg was added one or more times, each time with
\* a cache argument
InitCache ==
    /\ \E n \in 1 .. MaxConfigs :
          /\ configs = [k \in 1 .. n |-> k]
          /\ \E policy \in [1 .. n -> CachePolicies] :
                objs = [id \in ObjIds |->
                           IF id <= n
                           THEN instantiate(U_a, <<>>, policy[id], 0, FALSE, TRUE).inst
                           ELSE Free]
    /\ op = [name |-> "idle"]
    /\ status = "ok"
    /\ response = <<>>
    /\ pre_configs = <<>>
    /\ pre_objs = [id \in ObjIds |-> Free]
    /\ self \in SelfValues

\* server_pop has returned a notifier and the caller's next call is servers():
\* elapsed tells whether more seconds than a timed cache policy allows went
\* by in between
ServersAfterPop ==
    \E elapsed \in BOOLEAN :
        /\ op.name = "server_pop"
        /\ status = "ok"
        /\ LET later == IF elapsed THEN [id \in ObjIds |-> Elapse(objs[id])] ELSE objs
               r == servers(later, configs, Str(MATCH_ALL_TAG), TRUE)
           IN  /\ objs' = r.objs
               /\ response' = r.response
        /\ op' = [name |-> "servers_after_pop", index |-> op.index,
                  popped |-> response, elapsed |-> elapsed]
        /\ UNCHANGED <<configs, status, pre_configs, pre_objs, self>>

NextCache == ServerPop \/ ServersAfterPop \/ Servers \/ Return

SpecCache == InitCache /\ [][NextCache]_vars

(***************************************************************************)
(* Properties.                                                             *)
(***************************************************************************)
\* the arguments add works with once the aggregator's defaults are filled in
EffCache == IF op.args.cache # None THEN op.args.cache ELSE self.cache
EffRecursion ==
    IF op.args.recursion # <<>> THEN op.args.recursion[1] ELSE self.recursion
EffInsecure ==
    IF op.args.insecure_includes # <<>> THEN op.args.insecure_includes[1]
    ELSE self.insecure_includes

\* what add builds from a string element
Built(item) ==
    instantiate(item.url, op.args.tag, EffCache, EffRecursion, EffInsecure, TRUE)

\* an element of add's list that is appended: a config source, or a string
\* that instantiates
Loads(item) ==
    \/ item.kind = "config"
    \/ item.kind = "str" /\ Built(item).status = "ok"

\* the sources that were listed when the call was made are as they were
OldSourcesKept ==
    /\ SubSeq(configs, 1, Len(pre_configs)) = pre_configs
    /\ \A id \in Range(pre_configs) : objs[id] = pre_objs[id]

\* C1: add, given a list, goes through all its elements: the config sources
\* and the strings that instantiate are appended in the order given, the
\* elements of a wrong type and the strings that fail are skipped, and add
\* returns True exactly when no element failed.
C1_AddListPartialSuccess ==
    (op.name = "add" /\ op.c.kind = "list") =>
        LET good == SelectSeq(op.c.items, Loads)
            n == Len(pre_configs)
        IN  /\ OldSourcesKept
            /\ Len(configs) = n + Len(good)
            /\ \A k \in 1 .. Len(good) :
                  LET id == configs[n + k]
                  IN  IF good[k].kind = "str" THEN objs[id] = Built(good[k]).inst
                      ELSE IF good[k].ref # 0 THEN id = good[k].ref
                      ELSE objs[id] = good[k].src
            /\ (status = "True") <=>
                  (\A k \in 1 .. Len(op.c.items) : Loads(op.c.items[k]))
            /\ status \in {"True", "False"}

\* a list whose second element failed and whose first and third were appended
C1_Witness ==
    /\ op.name = "add" /\ op.c.kind = "list"
    /\ Len(op.c.items) = 3
    /\ Loads(op.c.items[1]) /\ ~Loads(op.c.items[2]) /\ Loads(op.c.items[3])
    /\ status = "False"
    /\ Len(configs) = Len(pre_configs) + 2

RECURSIVE Flatten(_)
Flatten(ss) == IF ss = <<>> THEN <<>> ELSE Head(ss) \o Flatten(Tail(ss))

RECURSIVE Sum(_)
Sum(ns) == IF ns = <<>> THEN 0 ELSE Head(ns) + Sum(Tail(ns))

\* what servers() of the k-th listed source gave when the call was made
PreServers(k) == ConfigBase_servers(pre_objs[pre_configs[k]]).cached

\* whether the k-th listed source passes the tag filter of the servers call
PreMatches(k) ==
    is_exclusive_match(op.tag, pre_objs[pre_configs[k]].tags, MATCH_ALL_TAG,
                       IF op.match_always THEN MATCH_ALWAYS_TAG ELSE None)

\* C2: servers(tag) returns the concatenation, in the order of the source
\* list and of each source, of the servers() of exactly the listed sources
\* whose tags match; it is computed from the sources held when it is called.
C2_ServersIsConcatenation ==
    op.name = "servers" =>
        /\ configs = pre_configs
        /\ response =
              Flatten([k \in 1 .. Len(pre_configs) |->
                          IF PreMatches(k) THEN PreServers(k) ELSE <<>>])
        /\ response =
              Flatten([k \in 1 .. Len(configs) |->
                          IF PreMatches(k) THEN objs[configs[k]].cached ELSE <<>>])

\* two sources, one filtered out and one returned, after a notifier had been
\* popped from one of them
C2_Witness ==
    /\ op.name = "servers"
    /\ Len(configs) = 2
    /\ \E k \in 1 .. 2 : PreMatches(k) /\ PreServers(k) # <<>>
    /\ \E k \in 1 .. 2 : ~PreMatches(k) /\ PreServers(k) # <<>>
    /\ \E k \in 1 .. 2 :
          Len(PreServers(k)) <
              Len(SelectSeq(Content(pre_objs[pre_configs[k]].origin), IsNotifierUrl))
    /\ response # <<>>

\* the notifiers of all listed sources, flattened, when the call was made
PreCounts == [k \in 1 .. Len(pre_configs) |-> Len(PreServers(k))]
PreFlat == Flatten([k \in 1 .. Len(pre_configs) |-> PreServers(k)])

\* C3: for an index i within the flattened list, server_pop(i) returns the
\* i-th notifier of that list and removes it from the first source whose
\* cumulative count exceeds i, at local index i minus the counts before it.
C3_ServerPopFlattenedIndex ==
    (op.name = "server_pop" /\ 0 <= op.index /\ op.index < Len(PreFlat)) =>
        /\ status = "ok"
        /\ response = <<PreFlat[op.index + 1]>>
        /\ configs = pre_configs
        /\ \E m \in 1 .. Len(pre_configs) :
              LET before == Sum(SubSeq(PreCounts, 1, m - 1))
                  local == op.index - before
              IN  /\ before <= op.index
                  /\ op.index < before + PreCounts[m]
                  /\ objs[configs[m]].cached = RemoveAt(PreServers(m), local + 1)
                  /\ \A id \in Range(configs) \ {configs[m]} :
                        objs[id].cached \in
                            {pre_objs[id].cached, ConfigBase_servers(pre_objs[id]).cached}

\* sources yielding 3 and 2 notifiers: index 3 is local index 0 of the second
C3_Witness ==
    /\ op.name = "server_pop"
    /\ op.index = 3
    /\ PreCounts = <<3, 2>>
    /\ status = "ok"
    /\ response = <<"mmost://host/TOKEN">>
    /\ Len(objs[configs[1]].cached) = 3
    /\ Len(objs[configs[2]].cached) = 1

\* C4: server_pop(i) with i at or beyond the number of notifiers raises
\* IndexError, removes no notifier and leaves the source list as it was.
C4_ServerPopOutOfRange ==
    (op.name = "server_pop" /\ op.index >= Len(PreFlat)) =>
        /\ status = "IndexError"
        /\ response = <<>>
        /\ configs = pre_configs
        /\ \A k \in 1 .. Len(configs) : objs[configs[k]].cached = PreServers(k)

\* index 3 on a source with 3 notifiers followed by an empty one
C4_Witness ==
    /\ op.name = "server_pop"
    /\ op.index = 3
    /\ PreCounts = <<3, 0>>
    /\ status = "IndexError"

\* the URL's schema is not one the configuration manager knows
Unregistered(url) == url.schema \in {"xyz", "XYZ"}

\* the source add appended last
LastAdded == objs[configs[Len(configs)]]

C6_UnregisteredSchema ==
    /\ (op.name = "instantiate" /\ Unregistered(op.url)) =>
          status = "None" /\ response = <<>>
    /\ (op.name = "add" /\ op.c.kind = "str" /\ Unregistered(op.c.url)) =>
          status = "False" /\ configs = pre_configs /\ objs = pre_objs

\* add of an upper-case unregistered schema on an aggregator holding a source
C6_Witness ==
    /\ op.name = "add" /\ op.c.kind = "str"
    /\ op.c.url.schema = "XYZ"
    /\ status = "False"
    /\ configs # <<>> /\ configs = pre_configs

\* the call reaches the constructor, which raises
ConstructorRaises(url) ==
    /\ ~Unregistered(url)
    /\ url.parsable
    /\ url.rejected # None

\* C7: when the constructor raises, instantiate returns None and lets nothing
\* escape with suppress_exceptions=True, and lets that same exception escape
\* with suppress_exceptions=False; the Mattermost and Pushjet constructors
\* raise TypeError for an invalid token or secret key.
C7_ConstructorException ==
    /\ (op.name = "instantiate" /\ ConstructorRaises(op.url)) =>
          /\ response = <<>>
          /\ op.suppress_exceptions => status = "None"
          /\ ~op.suppress_exceptions => status = op.url.rejected
    /\ (op.name = "mattermost" /\ validate_regex(op.args.token) = None) =>
          status = "TypeError" /\ response = <<>>
    /\ (op.name = "pushjet" /\ validate_regex(op.args.secret_key) = None) =>
          status = "TypeError" /\ response = <<>>

\* a TypeError of the constructor that escapes
C7_Witness ==
    /\ op.name = "instantiate"
    /\ ConstructorRaises(op.url)
    /\ ~op.suppress_exceptions
    /\ status = "TypeError"

\* C8 as claimed: for every notifier that was built, the notifier built from
\* its url() has the same url_identifier.
C8_UrlRoundTrip ==
    /\ (op.name = "mattermost" /\ status = "ok") =>
          NotifyMattermost_url_identifier(response[2])
              = NotifyMattermost_url_identifier(response[1])
    /\ (op.name = "pushjet" /\ status = "ok") =>
          NotifyPushjet_url_identifier(response[2])
              = NotifyPushjet_url_identifier(response[1])

\* the format the memory source of the add_config call ends up with
C9_Format ==
    IF op.format = None THEN DetectFormat(op.content.text) ELSE op.format

\* C9: add_config returns False and appends nothing when the content is not a
\* string or the memory source has no detected, supported format; otherwise it
\* appends exactly one memory source at the end of the list and returns True;
\* an aggregator holding only the two-line text config returns its mmost and
\* its pjet notifier, in that order, from servers().
C9_AddConfig ==
    /\ op.name = "add_config" =>
          IF op.content.type # "str" \/ C9_Format \notin CONFIG_FORMATS
          THEN /\ status = "False"
               /\ configs = pre_configs
               /\ objs = pre_objs
          ELSE /\ status = "True"
               /\ Len(configs) = Len(pre_configs) + 1
               /\ OldSourcesKept
               /\ configs[Len(configs)] \notin Range(pre_configs)
               /\ objs[configs[Len(configs)]].origin = op.content.text
               /\ objs[configs[Len(configs)]].tags = Range(op.tag)
               /\ ~objs[configs[Len(configs)]].loaded
    /\ (/\ op.name = "servers"
        /\ op.tag = Str(MATCH_ALL_TAG)
        /\ Len(pre_configs) = 1
        /\ pre_objs[pre_configs[1]].origin = TEXT_CONFIG
        /\ ~pre_objs[pre_configs[1]].loaded) =>
          response = <<"mmost://host/TOKEN", "pjet://host/SECRET">>

\* the text config is appended behind a source that was already listed
C9_Witness ==
    /\ op.name = "add_config"
    /\ status = "True"
    /\ op.content.text = TEXT_CONFIG
    /\ op.format = None
    /\ Len(pre_configs) = 1
    /\ Len(configs) = 2

\* an element of the tag expression is satisfied by a tag set
C10_Satisfied(element, tags) ==
    IF element.kind = "group"
    THEN Range(element.v) \subseteq tags
    ELSE \/ element.v \in tags
         \/ element.v = MATCH_ALL_TAG
         \/ (op.match_always /\ MATCH_ALWAYS_TAG \in tags)

\* the tag expression of the servers call matches a tag set
C10_Matches(tags) ==
    \/ op.tag = Str(MATCH_ALL_TAG)
    \/ \E element \in (IF op.tag.kind = "str" THEN {op.tag} ELSE Range(op.tag.v)) :
          C10_Satisfied(element, tags)

C11_Position ==
    IF op.index < 0 THEN Len(pre_configs) + op.index + 1 ELSE op.index + 1

\* C11: pop(i) removes and returns the source at position i of the source
\* list (the last one for the default index -1) and keeps the other sources
\* in their order; with an index that addresses no source, so with any index
\* on an empty aggregator, it raises IndexError and leaves the list as it was.
C11_Pop ==
    op.name = "pop" =>
        IF C11_Position \in 1 .. Len(pre_configs)
        THEN /\ status = "ok"
             /\ response = <<pre_configs[C11_Position]>>
             /\ configs = SubSeq(pre_configs, 1, C11_Position - 1)
                            \o SubSeq(pre_configs, C11_Position + 1, Len(pre_configs))
             /\ \A id \in Range(configs) : objs[id] = pre_objs[id]
        ELSE /\ status = "IndexError"
             /\ response = <<>>
             /\ configs = pre_configs
             /\ objs = pre_objs

\* pop() without an index takes the last of two different sources
C11_Witness ==
    /\ op.name = "pop"
    /\ op.index = -1
    /\ Len(pre_configs) = 2
    /\ pre_configs[1] # pre_configs[2]
    /\ status = "ok"
    /\ configs = <<pre_configs[1]>>

\* the elements add goes through: those of a list, or its one argument
C12_Items ==
    IF op.c.kind = "list" THEN op.c.items
    ELSE IF op.c.kind \in {"str", "config"} THEN <<op.c>>
    ELSE <<>>

\* what the source list is after the operation that just ran, told from the
\* list it was called on
C12_ListAfter ==
    /\ op.name = "add" =>
          LET good == SelectSeq(C12_Items, Loads)
              n == Len(pre_configs)
          IN  /\ SubSeq(configs, 1, n) = pre_configs
              /\ Len(configs) = n + Len(good)
              /\ \A k \in 1 .. Len(good) :
                    IF good[k].kind = "config" /\ good[k].ref # 0
                    THEN configs[n + k] = good[k].ref
                    ELSE configs[n + k] \notin Range(SubSeq(configs, 1, n + k - 1))
    /\ op.name = "add_config" =>
          /\ SubSeq(configs, 1, Len(pre_configs)) = pre_configs
          /\ Len(configs) = Len(pre_configs) + (IF status = "True" THEN 1 ELSE 0)
    /\ op.name = "pop" =>
          IF status = "ok"
          THEN \E k \in 1 .. Len(pre_configs) :
                  /\ response = <<pre_configs[k]>>
                  /\ configs = RemoveAt(pre_configs, k)
          ELSE configs = pre_configs
    /\ op.name = "clear" =>
          /\ configs = <<>>
          /\ len(configs) = 0
          /\ servers(objs, configs, Str(MATCH_ALL_TAG), TRUE).response = <<>>
    /\ op.name \in {"servers", "server_pop", "bool", "len"} => configs = pre_configs
    /\ op.name = "len" => response = <<Len(configs)>>

\* C12: over any sequence of add, add_config, pop and clear the source list is
\* the sources added with success, in the order they were added and a source
\* added twice listed twice, without the popped ones, and empty again after a
\* clear; nothing else changes it; len() is its length, and after clear()
\* len() is 0 and servers() is empty.
C12_SourceList ==
    [][/\ C12_ListAfter'
       /\ op.name = "idle" => pre_configs' = configs
       /\ op.name # "idle" => configs' = configs]_vars

\* len() of an aggregator to which the same source was added twice
C12_Witness ==
    /\ op.name = "len"
    /\ response = <<2>>
    /\ configs[1] = configs[2]

\* C14 as claimed: bool() of the aggregator is True exactly when its sources
\* yield at least one notification service.
C14_BoolMeansServices ==
    op.name = "bool" => response = <<PreFlat # <<>>>>

\* C20 as claimed: server_pop with a negative index raises IndexError and
\* removes no notifier from any source.
C20_NegativeIndexRaises ==
    (op.name = "server_pop" /\ op.index < 0) =>
        /\ status = "IndexError"
        /\ \A id \in Range(pre_configs) :
              objs[id] \in {pre_objs[id], ConfigBase_servers(pre_objs[id])}

\* the notifiers within reach of an origin read with budget B: B + 1 times
\* the one of the origin that imports itself; of the chain /top.cfg,
\* /mid.cfg, /leaf.cfg those of the first B + 1 origins
C13_Within(origin, B) ==
    CASE origin = "/loop.cfg" -> [k \in 1 .. B + 1 |-> "pjet://loop/S"]
      [] origin = "/top.cfg"  ->
            SubSeq(<<"mmost://top/T", "mmost://mid/T", "mmost://leaf/T">>,
                   1, IF B < 2 THEN B + 1 ELSE 3)
      [] OTHER -> SelectSeq(Content(origin), IsNotifierUrl)

\* C13: a source read with recursion budget B yields its own notifiers and
\* those of at most B nested levels of imports, also when it imports itself,
\* and with budget 0 only its own; a source that add builds from a string
\* without a recursion argument, the constructor's paths included, has the
\* aggregator's budget.
C13_ImportBudget ==
    /\ \A id \in Range(configs) :
          objs[id].loaded =>
              /\ objs[id].cached = C13_Within(objs[id].origin, objs[id].recursion)
              /\ objs[id].recursion = 0 =>
                    objs[id].cached = SelectSeq(Content(objs[id].origin), IsNotifierUrl)
    /\ (op.name = "add" /\ op.args.recursion = <<>>) =>
          LET good == SelectSeq(C12_Items, Loads)
          IN  \A k \in 1 .. Len(good) :
                 good[k].kind = "str" =>
                    objs[configs[Len(pre_configs) + k]].recursion = self.recursion
    /\ op.name = "init" =>
          \A id \in Range(configs) : objs[id].recursion = self.recursion

\* the source that imports itself, read with the largest budget
C13_Witness ==
    \E id \in Range(configs) :
        /\ objs[id].origin = "/loop.cfg"
        /\ objs[id].recursion = MaxRecursion
        /\ objs[id].loaded
        /\ Len(objs[id].cached) = MaxRecursion + 1

\* C17 as claimed: a source add builds from a string has the cache argument of
\* add when that is not None and else the cache the aggregator was built
\* with; the sources of the constructor's paths have the constructor's cache.
C17_CacheOfStringSources ==
    /\ op.name = "add" =>
          LET good == SelectSeq(C12_Items, Loads)
          IN  \A k \in 1 .. Len(good) :
                 good[k].kind = "str" =>
                    objs[configs[Len(pre_configs) + k]].cache = EffCache
    /\ op.name = "init" =>
          \A id \in Range(configs) : objs[id].cache = self.cache

\* what add appends for an element it takes
C18_Appended(item, id) ==
    IF item.kind = "str"
    THEN /\ objs[id].recursion = EffRecursion
         /\ objs[id].insecure_includes = EffInsecure
         /\ objs[id].tags = Range(op.args.tag)
         /\ objs[id].cache = EffCache
         /\ id \notin Range(pre_configs)
    ELSE IF item.ref # 0
    THEN id = item.ref /\ objs[id] = pre_objs[id]
    ELSE objs[id] = item.src /\ id \notin Range(pre_configs)

\* C18: a source that add or add_config creates has the recursion budget and
\* the insecure_includes flag given to the call, and the aggregator's own
\* where the argument is None; add applies its tag, cache, recursion and
\* insecure_includes only to the sources it builds from strings: a config
\* source handed to add, alone or in a list, is appended as it is.
C18_ArgumentsOfAdd ==
    /\ op.name = "add" =>
          LET good == SelectSeq(C12_Items, Loads)
          IN  /\ OldSourcesKept
              /\ Len(configs) = Len(pre_configs) + Len(good)
              /\ \A k \in 1 .. Len(good) :
                    C18_Appended(good[k], configs[Len(pre_configs) + k])
    /\ (op.name = "add_config" /\ status = "True") =>
          LET created == objs[configs[Len(configs)]]
          IN  /\ created.recursion =
                    (IF op.args.recursion # <<>> THEN op.args.recursion[1]
                     ELSE self.recursion)
              /\ created.insecure_includes =
                    (IF op.args.insecure_includes # <<>>
                     THEN op.args.insecure_includes[1]
                     ELSE self.insecure_includes)

\* a list holding a config source and a string, added with every argument
\* set, to an aggregator whose own values differ
C18_Witness ==
    /\ op.name = "add"
    /\ op.c.kind = "list"
    /\ op.args = Explicit
    /\ self.recursion = MaxRecursion
    /\ Len(configs) = Len(pre_configs) + 2
    /\ objs[configs[Len(configs) - 1]] = Prebuilt
    /\ objs[configs[Len(configs)]].recursion = 1
    /\ objs[configs[Len(configs)]].insecure_includes

\* the POSTs among the events of a send, in order
C15_Posts == SelectSeq(response, LAMBDA e : e.kind = "post")

\* C15: NotifyMattermost.send POSTs once for each configured channel, in the
\* configured order, or once when no channel is configured; a POST that ends
\* with another status than 200 or with a request exception does not keep the
\* later POSTs from being made; send ends, and returns True exactly when
\* every POST ended with status 200.
C15_OnePostPerChannel ==
    op.name = "mattermost_send" =>
        LET channels == op.notifier.channels
        IN  /\ Len(C15_Posts) = (IF channels = <<>> THEN 1 ELSE Len(channels))
            /\ \A k \in 1 .. Len(channels) :
                  channels[k] # "" => C15_Posts[k].channel = channels[k]
            /\ channels = <<>> => C15_Posts[1].channel = None
            /\ \A k \in 1 .. Len(C15_Posts) : C15_Posts[k].outcome = op.outcomes[k]
            /\ status \in {"True", "False"}
            /\ (status = "True") <=>
                  (\A k \in 1 .. Len(C15_Posts) : op.outcomes[k] = "200")

\* three channels, the first POST raising and the second refused
C15_Witness ==
    /\ op.name = "mattermost_send"
    /\ Len(op.notifier.channels) = 3
    /\ op.outcomes = <<"RequestException", "500", "200">>
    /\ Len(C15_Posts) = 3
    /\ status = "False"

\* C16: in the send of both plugins a throttle() call comes right before
\* every POST: the events are throttle, POST, throttle, POST, ..., also after
\* a POST that failed.
C16_ThrottleBeforeEveryPost ==
    op.name \in {"mattermost_send", "pushjet_send"} =>
        /\ Len(response) = 2 * Len(C15_Posts)
        /\ C15_Posts # <<>>
        /\ \A i \in 1 .. Len(response) :
              response[i].kind = (IF i % 2 = 1 THEN "throttle" ELSE "post")

\* a second POST made after the first one failed
C16_Witness ==
    /\ op.name = "mattermost_send"
    /\ Len(response) >= 4
    /\ response[2].outcome = "500"
    /\ response[3].kind = "throttle"
    /\ response[4].kind = "post"

\* C19 as claimed: the servers() call that follows a successful server_pop(i)
\* returns the flattened list as it was before, without its i-th element,
\* whatever the cache policy of the sources.
C19_ServersAfterServerPop ==
    (op.name = "servers_after_pop" /\ op.index >= 0) =>
        response = RemoveAt(PreFlat, op.index + 1)

\* C21 as claimed: the POST made for a channel names that channel, and the
\* POST made for an entry without a name (no channel configured, or a channel
\* that is empty once its '#' is stripped) names no channel.
C21_PayloadChannel ==
    op.name = "mattermost_send" =>
        LET channels == op.notifier.channels
        IN  /\ channels = <<>> => C15_Posts[1].channel = None
            /\ \A k \in 1 .. Len(channels) :
                  C15_Posts[k].channel =
                      (IF channels[k] # "" THEN channels[k] ELSE None)

\* C22 as claimed: parse_native_url of a native webhook URL that names a port
\* other than its scheme's default returns that port, the secure scheme
\* exactly for https, and the token.
C22_NativeUrlPort ==
    (/\ op.name = "parse_native_url"
     /\ NativeMatches(op.url)
     /\ op.url.port # NoPort
     /\ op.url.port # (IF op.url.secure THEN 443 ELSE 80)) =>
        /\ status = "ok"
        /\ response[1].port = op.url.port
        /\ response[1].secure = op.url.secure
        /\ response[1].token = op.url.token

\* the POSTs a send attempts: the URL and the channel of each, in order
C23_Attempts(events) ==
    LET posts == SelectSeq(events, LAMBDA e : e.kind = "post")
    IN  [k \in 1 .. Len(posts) |-> <<posts[k].url, posts[k].channel>>]

\* C23: send of both plugins leaves the notifier as it was (channels, token
\* or secret, host, port, user, fullpath, secure flag), and a second send on
\* the same notifier attempts the POSTs of the first, in the same order,
\* however the POSTs of the first ended.
C23_SendKeepsNotifier ==
    /\ op.name \in {"mattermost_send", "pushjet_send",
                    "mattermost_send_again", "pushjet_send_again"} =>
          op.after = op.notifier
    /\ op.name \in {"mattermost_send_again", "pushjet_send_again"} =>
          C23_Attempts(response) = C23_Attempts(op.first)

\* a second send over three channels after a first one whose POSTs all failed
C23_Witness ==
    /\ op.name = "mattermost_send_again"
    /\ Len(op.notifier.channels) = 3
    /\ \A k \in 1 .. Len(op.first) :
          op.first[k].kind = "post" => op.first[k].outcome # "200"
    /\ Len(C23_Attempts(response)) = 3
    /\ status = "True"

====
